---- MODULE Spec2Model ----
(***************************************************************************)
(* A model of swarm/util.py: the streamed-delta merger (merge_fields,      *)
(* merge_chunk) and the tool-schema builder (function_to_json with its     *)
(* inner parse_type).                                                      *)
(*                                                                         *)
(* Python values are tagged records [t |-> tag, v |-> payload]:            *)
(*   "str"  : v is the sequence of the string's characters                 *)
(*   "null" : None                                                         *)
(*   "num"  : an int            "bool" : a bool                            *)
(*   "list" : v is the sequence of the elements                            *)
(*   "dict" : in the accumulator, v is a function from keys to values      *)
(*            (dict equality ignores order); in a delta, v is the sequence *)
(*            of <<key, value>> items in insertion order, which is the     *)
(*            order source.items() walks them in.                          *)
(* An operation of the code that can raise returns a record with an err    *)
(* field naming the Python exception ("none" when it completes).  A raise  *)
(* keeps every in-place mutation made before it.                           *)
(***************************************************************************)
EXTENDS Integers, Sequences, FiniteSets, TLC

VARIABLES
    final_response,   \* the accumulator merge_chunk mutates in place
    initial,          \* the accumulator as the caller created it
    history,          \* one record per merge_chunk call made so far
    sig,              \* the signature function_to_json is given
    schema            \* what function_to_json returned

vars == <<final_response, initial, history, sig, schema>>

\* Number of merge_chunk calls made on one accumulator.
MaxCalls == 2

----------------------------------------------------------------------------
(* Python values *)

Str(s) == [t |-> "str", v |-> s]
Null == [t |-> "null", v |-> <<>>]
Num(n) == [t |-> "num", v |-> n]
Bool(b) == [t |-> "bool", v |-> b]
List(s) == [t |-> "list", v |-> s]
Dict(f) == [t |-> "dict", v |-> f]

Ok(val) == [err |-> "none", val |-> val]
Raise(e) == [err |-> e, val |-> Null]

\* bool(value), as `if tool_calls and ...` evaluates it
Truthy(value) ==
    CASE value.t = "null" -> FALSE
      [] value.t = "num"  -> value.v # 0
      [] value.t = "bool" -> value.v
      [] OTHER            -> value.v # <<>>

----------------------------------------------------------------------------
(* Insertion-ordered dicts (the deltas) *)

RECURSIVE HasItem(_, _)
HasItem(items, key) ==
    IF items = <<>> THEN FALSE
    ELSE Head(items)[1] = key \/ HasItem(Tail(items), key)

\* dict.get(key): the value, None when the key is absent
RECURSIVE Get(_, _)
Get(items, key) ==
    IF items = <<>> THEN Null
    ELSE IF Head(items)[1] = key THEN Head(items)[2]
    ELSE Get(Tail(items), key)

\* what dict.pop(key) leaves in the dict
RECURSIVE Pop(_, _)
Pop(items, key) ==
    IF items = <<>> THEN <<>>
    ELSE IF Head(items)[1] = key THEN Tail(items)
    ELSE <<Head(items)>> \o Pop(Tail(items), key)

----------------------------------------------------------------------------
(* merge_fields *)

\* target[key] for a string key
Subscript(target, key) ==
    IF target.t = "dict"
    THEN IF key \in DOMAIN target.v THEN Ok(target.v[key]) ELSE Raise("KeyError")
    ELSE Raise("TypeError")

\* Faulty variant of IAdd: it prepends.
IAddPrepends(current, s) ==
    CASE current.t = "str"  -> Ok(Str(s \o current.v))
      [] current.t = "list" -> Ok(List([i \in 1..Len(s) |-> Str(<<s[i]>>)] \o current.v))
      [] OTHER              -> Raise("TypeError")

\* current += s for a str s: str concatenation, list.extend with the
\* characters of s, TypeError for None, numbers and dicts
IAdd(current, s) ==
    CASE current.t = "str"  -> Ok(Str(current.v \o s))
      [] current.t = "list" -> Ok(List(current.v \o [i \in 1..Len(s) |-> Str(<<s[i]>>)]))
      [] OTHER              -> Raise("TypeError")

\* target[key] = val, for a key target holds
Store(target, key, val) == [target EXCEPT !.v[key] = val]

\* A value neither branch of merge_fields takes: not a str, and None or not a dict
IsIgnored(value) == value.t \notin {"str", "dict"}

\* merge_fields(target, source): target after the loop, or after the part of
\* the loop that ran before the exception err
RECURSIVE merge_fields(_, _)
merge_fields(target, source) ==
    IF source = <<>> THEN [target |-> target, err |-> "none"]
    ELSE
      LET key == Head(source)[1]
          value == Head(source)[2]
          cur == Subscript(target, key)
          step ==
            IF IsIgnored(value) THEN [target |-> target, err |-> "none"]
            ELSE IF cur.err # "none" THEN [target |-> target, err |-> cur.err]
            ELSE IF value.t = "str"
            THEN LET sum == IAdd(cur.val, value.v)
                 IN  IF sum.err # "none" THEN [target |-> target, err |-> sum.err]
                     ELSE [target |-> Store(target, key, sum.val), err |-> "none"]
            ELSE LET sub == merge_fields(cur.val, value.v)
                 IN  [target |-> Store(target, key, sub.target), err |-> sub.err]
      IN  IF step.err # "none" THEN step
          ELSE merge_fields(step.target, Tail(source))

----------------------------------------------------------------------------
(* merge_chunk *)

\* Faulty variant of DropRole: it keeps the role field.
DropRoleKeeps(delta) == delta

\* delta.pop("role", None)
DropRole(delta) == Pop(delta, "role")

\* Faulty variant of FirstFragment: it takes the last entry.
LastFragment(tool_calls) == tool_calls.v[Len(tool_calls.v)]

\* tool_calls[0]
FirstFragment(tool_calls) == tool_calls.v[1]

\* Faulty variant of Position: it addresses the first entry whatever the index.
PositionFirst(seq, index) == IF Len(seq) > 0 THEN 1 ELSE 0

\* The position of the list a Python int index addresses (a negative index
\* counts from the end), 0 when the index is out of range
Position(seq, index) ==
    IF 0 <= index /\ index < Len(seq) THEN index + 1
    ELSE IF index < 0 /\ -index <= Len(seq) THEN Len(seq) + index + 1
    ELSE 0

\* container[index] for the index a fragment carried: list indexing for a
\* list, a failed key lookup for a dict (its keys are strings), TypeError for
\* None and for an index that is no int
Index(container, index) ==
    CASE container.t = "list" ->
           IF index.t # "num" THEN Raise("TypeError")
           ELSE IF Position(container.v, index.v) = 0 THEN Raise("IndexError")
           ELSE Ok(container.v[Position(container.v, index.v)])
      [] container.t = "dict" -> Raise("KeyError")
      [] OTHER -> Raise("TypeError")

\* merge_chunk(final_response, delta): the accumulator after the call and the
\* exception the call ended in
merge_chunk(acc, delta0) ==
    LET delta == DropRole(delta0)
        top == merge_fields(acc, delta)
        tool_calls == Get(delta, "tool_calls")
    IN
    IF top.err # "none" THEN [acc |-> top.target, err |-> top.err]
    ELSE IF ~Truthy(tool_calls) THEN [acc |-> top.target, err |-> "none"]
    ELSE IF tool_calls.t # "list" THEN [acc |-> top.target, err |-> "TypeError"]
    ELSE
      LET fragment == FirstFragment(tool_calls)
          index == Get(fragment.v, "index")
          rest == Pop(fragment.v, "index")
          slots == Subscript(top.target, "tool_calls")
          entry == Index(slots.val, index)
          merged == merge_fields(entry.val, rest)
      IN
      IF ~HasItem(fragment.v, "index") THEN [acc |-> top.target, err |-> "KeyError"]
      ELSE IF slots.err # "none" THEN [acc |-> top.target, err |-> slots.err]
      ELSE IF entry.err # "none" THEN [acc |-> top.target, err |-> entry.err]
      ELSE [acc |-> Store(top.target, "tool_calls",
                          Store(slots.val, Position(slots.val.v, index.v), merged.target)),
            err |-> merged.err]

----------------------------------------------------------------------------
(* The accumulators and the deltas the calls are made with *)

\* A tool-call entry of the accumulator, holding what was streamed so far
Entry(id, name, arguments) ==
    Dict([id |-> Str(id), type |-> Str(<<>>),
          function |-> Dict([name |-> Str(name), arguments |-> Str(arguments)])])

EmptyEntry == Entry(<<>>, <<>>, <<>>)
PartialEntry == Entry(<<"c">>, <<"f">>, <<"a", "r">>)

\* The accumulators the calls start from: with and without content, role and
\* tool_calls, content also None, tool_calls of zero, one and two entries
Accumulators ==
    { Dict([content |-> Str(<<>>), role |-> Str(<<"r">>),
            tool_calls |-> List(<<EmptyEntry, PartialEntry>>)]),
      Dict([content |-> Str(<<"H">>), tool_calls |-> List(<<>>)]),
      Dict([content |-> Str(<<"H">>), role |-> Str(<<"r">>),
            tool_calls |-> List(<<PartialEntry>>)]),
      Dict([content |-> Null, tool_calls |-> List(<<PartialEntry, EmptyEntry>>)]),
      Dict([content |-> Str(<<>>)]),
      Dict(<<>>) }

\* A tool-call fragment as the stream carries it: the first fragment of a call
\* names it, the later ones carry None for everything but the arguments
Opening(index, arguments) ==
    Dict(<< <<"index", Num(index)>>, <<"id", Str(<<"c">>)>>,
            <<"function", Dict(<< <<"arguments", Str(arguments)>>,
                                  <<"name", Str(<<"f">>)>> >>)>>,
            <<"type", Str(<<"t">>)>> >>)

Continuation(index, arguments) ==
    Dict(<< <<"index", Num(index)>>, <<"id", Null>>,
            <<"function", Dict(<< <<"arguments", Str(arguments)>>,
                                  <<"name", Null>> >>)>>,
            <<"type", Null>> >>)

\* The indices a fragment carries: in range, past the end, and negative
Indices == {0, 1, 2, -1}

Fragments ==
    {Opening(0, <<>>), Opening(1, <<"x">>)}
      \cup {Continuation(i, <<"g", "o">>) : i \in Indices}

\* What a delta carries under tool_calls: a list of fragments (one, two, or
\* none; one of them lacks its index in ToolDeltas), None, a number, a boolean
ToolCallValues ==
    {List(<<f>>) : f \in Fragments}
      \cup { List(<<Continuation(1, <<"g", "o">>), Opening(0, <<"y">>)>>),
             List(<<Continuation(0, <<"x">>), Continuation(0, <<"y">>)>>),
             List(<<>>), Null, Bool(TRUE), Num(0) }

TextDeltas ==
    { << <<"content", Str(<<"a">>)>> >>,
      << <<"content", Str(<<"b", "c">>)>> >>,
      << <<"role", Str(<<"r">>)>>, <<"content", Str(<<"a">>)>> >>,
      << <<"role", Str(<<"r">>)>> >>,
      << <<"content", Str(<<"b", "c">>)>>, <<"role", Null>> >>,
      << <<"content", Null>> >>,
      << <<"content", Num(1)>>, <<"refusal", Null>> >>,
      << <<"content", Bool(TRUE)>>, <<"refusal", Num(1)>> >>,
      << <<"refusal", Str(<<"x">>)>> >>,
      << <<"content", Str(<<"a">>)>>, <<"refusal", Str(<<"x">>)>> >>,
      << <<"refusal", Str(<<"x">>)>>, <<"content", Str(<<"a">>)>> >> }

ToolDeltas ==
    { << <<"tool_calls", tc>> >> : tc \in ToolCallValues }
      \cup { << <<"content", Str(<<"a">>)>>, <<"tool_calls", List(<<f>>)>> >> :
               f \in {Continuation(i, <<"g", "o">>) : i \in {1, 2}} }
      \cup { << <<"role", Str(<<"r">>)>>, <<"content", Null>>,
                <<"tool_calls", List(<<Opening(0, <<>>)>>)>> >>,
             << <<"content", Str(<<"a">>)>>,
                <<"tool_calls", List(<< Dict(<< <<"id", Str(<<"c">>)>> >>) >>)>> >> }

Deltas == TextDeltas \cup ToolDeltas

----------------------------------------------------------------------------
(* function_to_json *)

\* An annotation as get_origin and get_args show it: k names the origin (or,
\* for a plain class, the class), args are the type arguments.  "empty" is
\* inspect.Parameter.empty; typing flattens a Union and removes duplicates.
Ann(k, args) == [k |-> k, args |-> args]
Class(k) == Ann(k, <<>>)
NoneType == Class("NoneType")
Empty == Class("empty")

\* type_map.get(annotation, "string")
type_map(k) ==
    CASE k = "str"      -> "string"
      [] k = "int"      -> "integer"
      [] k = "float"    -> "number"
      [] k = "bool"     -> "boolean"
      [] k = "list"     -> "array"
      [] k = "dict"     -> "object"
      [] k = "NoneType" -> "null"
      [] OTHER          -> "string"

\* The value of a fragment's type key: one name, or the list(set(...)) of a
\* union, whose order Python leaves open
OneType(name) == [many |-> FALSE, names |-> {name}]
ManyTypes(names) == [many |-> TRUE, names |-> names]

IsArrayWithItems(parsed) ==
    parsed["type"] = OneType("array") /\ "items" \in DOMAIN parsed

\* Faulty variant of UnionItems: it keeps the first array member's items.
UnionItemsFirst(parsed) ==
    LET found == {i \in 1..Len(parsed) : IsArrayWithItems(parsed[i])}
    IN  IF found = {} THEN <<>>
        ELSE <<parsed[CHOOSE i \in found : \A j \in found : i <= j]["items"]>>

\* items after the loop over the members: every array member with an items
\* key assigns it, so the loop ends with the last one's; <<>> for None
UnionItems(parsed) ==
    LET found == {i \in 1..Len(parsed) : IsArrayWithItems(parsed[i])}
    IN  IF found = {} THEN <<>>
        ELSE <<parsed[CHOOSE i \in found : \A j \in found : i >= j]["items"]>>

\* set(types): the type names of the parsed members
UnionTypes(parsed) ==
    UNION {parsed[i]["type"].names : i \in 1..Len(parsed)}

RECURSIVE parse_type(_)
parse_type(annotation) ==
    LET args == annotation.args
        non_none_types == SelectSeq(args, LAMBDA arg : arg # NoneType)
        is_optional == (\E i \in 1..Len(args) : args[i] = NoneType)
                          /\ Len(non_none_types) = 1
        parsed == [i \in 1..Len(args) |-> parse_type(args[i])]
    IN
    CASE annotation.k = "Union" /\ is_optional ->
           ("nullable" :> TRUE) @@ parse_type(non_none_types[1])
      [] annotation.k = "Union" /\ ~is_optional ->
           IF UnionItems(parsed) = <<>>
           THEN ("type" :> ManyTypes(UnionTypes(parsed)))
           ELSE ("type" :> ManyTypes(UnionTypes(parsed)))
                  @@ ("items" :> UnionItems(parsed)[1])
      [] annotation.k = "List" ->
           ("type" :> OneType("array")) @@
           ("items" :> ("type" :> IF args = <<>> THEN OneType("string")
                                  ELSE parse_type(args[1])["type"]))
      [] annotation.k = "Dict" ->
           ("type" :> OneType("object")) @@
           ("additionalProperties" :>
               IF Len(args) = 2 THEN parse_type(args[2])
               ELSE ("type" :> OneType("string")))
      [] OTHER -> ("type" :> OneType(type_map(annotation.k)))

\* Faulty variant of IsRequired: it takes an Optional type for a default.
IsRequiredUnlessOptional(param) ==
    /\ ~param.has_default
    /\ ~(param.annotation.k = "Union"
           /\ \E i \in 1..Len(param.annotation.args) : param.annotation.args[i] = NoneType)

\* param.default == inspect.Parameter.empty
IsRequired(param) == ~param.has_default

\* The list comprehension over signature.parameters.values()
RECURSIVE RequiredNames(_)
RequiredNames(params) ==
    IF params = <<>> THEN <<>>
    ELSE (IF IsRequired(Head(params)) THEN <<Head(params).name>> ELSE <<>>)
           \o RequiredNames(Tail(params))

\* The parameters dict the loop over the signature fills
Properties(params) ==
    [name \in {params[i].name : i \in 1..Len(params)} |->
        LET param == params[CHOOSE i \in 1..Len(params) : params[i].name = name]
        IN  IF param.annotation = Empty THEN ("type" :> OneType("string"))
            ELSE parse_type(param.annotation)]

\* function_to_json(func); inspect.signature raises ValueError for a callable
\* it cannot reflect, and function_to_json raises ValueError in turn.
\* func.doc is <<>> for a __doc__ of None and <<d>> for a docstring d.
function_to_json(func) ==
    IF ~func.reflectable THEN [t |-> "ValueError"]
    ELSE [t |-> "returned",
          type |-> "function",
          name |-> func.name,
          description |-> IF func.doc = <<>> THEN "" ELSE func.doc[1],
          parameters |-> [type |-> "object",
                          properties |-> Properties(func.params),
                          required |-> RequiredNames(func.params)]]

----------------------------------------------------------------------------
(* The callables function_to_json is given *)

\* Parameters of one callable, and members of one Union
MaxParams == 2
MaxUnion == 3

ParamNames == {"a", "b", "c"}

Optional(annotation) == Ann("Union", <<annotation, NoneType>>)

PlainAnnotations ==
    { Empty, Class("int"), Class("bytes"),
      Optional(Class("str")), Optional(Ann("List", <<Class("int")>>)),
      Ann("List", <<Class("float")>>),
      Ann("Dict", <<Class("str"), Class("bool")>>),
      Ann("Union", <<Class("int"), Class("str")>>) }

UnionMembers ==
    { Class("int"), NoneType, Class("list"), Ann("List", <<>>),
      Ann("List", <<Class("int")>>), Ann("List", <<Class("bool")>>),
      Ann("Dict", <<>>) }

\* The Unions of n distinct members, in every order
RECURSIVE UnionArgs(_)
UnionArgs(n) ==
    IF n = 0 THEN {<<>>}
    ELSE {Append(args, m) : args \in UnionArgs(n - 1),
                            m \in UnionMembers} \ 
         {Append(args, args[i]) : args \in UnionArgs(n - 1), i \in 1..(n - 1)}

Unions == {Ann("Union", args) : args \in UNION {UnionArgs(n) : n \in 2..MaxUnion}}

Param(name, annotation, has_default) ==
    [name |-> name, annotation |-> annotation, has_default |-> has_default]

RECURSIVE ParamLists(_, _)
ParamLists(n, annotations) ==
    IF n = 0 THEN {<<>>}
    ELSE LET shorter == ParamLists(n - 1, annotations)
         IN  shorter \cup
               ({Append(ps, Param(name, ann, d)) :
                    ps \in {q \in shorter : Len(q) = n - 1},
                    name \in ParamNames, ann \in annotations, d \in BOOLEAN} \ 
                {Append(ps, Param(ps[i].name, ann, d)) :
                    ps \in {q \in shorter : Len(q) = n - 1},
                    i \in 1..(n - 1), ann \in annotations, d \in BOOLEAN})

Func(params, doc) == [reflectable |-> TRUE, name |-> "f", doc |-> doc, params |-> params]

Functions ==
    {Func(ps, <<>>) : ps \in ParamLists(MaxParams, PlainAnnotations)}
      \cup {Func(<<Param("a", u, d)>>, <<"doc">>) : u \in Unions, d \in BOOLEAN}
      \cup {[reflectable |-> FALSE, name |-> "f", doc |-> <<>>, params |-> <<>>]}

----------------------------------------------------------------------------
(* The state machine *)

NoSignature == <<>>
NoSchema == [t |-> "none"]

Init ==
    /\ initial \in Accumulators
    /\ final_response = initial
    /\ history = <<>>
    /\ sig = NoSignature
    /\ schema = NoSchema

\* One call merge_chunk(final_response, delta) by the consumer of the stream
MergeChunk(delta) ==
    /\ Len(history) < MaxCalls
    /\ LET r == merge_chunk(final_response, delta)
       IN  /\ final_response' = r.acc
           /\ history' = Append(history,
                  [delta |-> delta, before |-> final_response,
                   after |-> r.acc, err |-> r.err])
    /\ UNCHANGED <<initial, sig, schema>>

Next == \E delta \in Deltas : MergeChunk(delta)

Spec == Init /\ [][Next]_vars

\* The schema builder shares no state with the merger
SchemaInit ==
    /\ sig \in Functions
    /\ schema = NoSchema
    /\ initial = Dict(<<>>)
    /\ final_response = initial
    /\ history = <<>>

\* One call function_to_json(func), at the registration of a tool
FunctionToJson ==
    /\ schema = NoSchema
    /\ schema' = function_to_json(sig)
    /\ UNCHANGED <<sig, initial, final_response, history>>

SchemaSpec == SchemaInit /\ [][FunctionToJson]_vars

----------------------------------------------------------------------------
(* What the claims speak of *)

Calls == {history[n] : n \in 1..Len(history)}

\* The top-level keys the deltas use
TopKeys == {"content", "role", "refusal", "tool_calls"}

HoldsStr(acc, key) == key \in DOMAIN acc.v /\ acc.v[key].t = "str"

\* The string a delta carries for a key, empty when it carries none
Carried(items, key) ==
    IF HasItem(items, key) /\ Get(items, key).t = "str" THEN Get(items, key).v ELSE <<>>

\* The strings the first n deltas carried for a key, in call order
RECURSIVE Streamed(_, _)
Streamed(key, n) ==
    IF n = 0 THEN <<>> ELSE Streamed(key, n - 1) \o Carried(history[n].delta, key)

\* Every string field of the delta, but those under the keys in except, is
\* addressed to a key at which the accumulator was created with a string,
\* and the delta has no object-valued field
StringsLand(delta, except) ==
    \A i \in 1..Len(delta) :
        /\ delta[i][2].t # "dict"
        /\ delta[i][2].t = "str" /\ delta[i][1] \notin except => HoldsStr(initial, delta[i][1])

\* C1 as stated: for every top-level key that holds a string, after any
\* sequence of calls whose string fields are addressed to such keys, the value
\* at the key is the initial string followed by the delta strings in call order.
C1_AppendsAtEveryKey ==
    (\A c \in Calls : StringsLand(c.delta, {})) =>
        \A key \in TopKeys :
            HoldsStr(initial, key) =>
                final_response.v[key] = Str(initial.v[key].v \o Streamed(key, Len(history)))

\* C1 amended: the same for every top-level key other than role (the role
\* field of a delta is dropped, whatever the accumulator holds at role).
C1_AppendsInCallOrder ==
    (\A c \in Calls : StringsLand(c.delta, {"role"})) =>
        \A key \in TopKeys \ {"role"} :
            HoldsStr(initial, key) =>
                final_response.v[key] = Str(initial.v[key].v \o Streamed(key, Len(history)))

C1_Witness ==
    /\ Len(history) = 2
    /\ \A c \in Calls : StringsLand(c.delta, {"role"})
    /\ Carried(history[1].delta, "content") = <<"a">>
    /\ Carried(history[2].delta, "content") = <<"b", "c">>
    /\ initial.v["content"] = Str(<<"H">>)
    /\ final_response.v["content"] = Str(<<"H", "a", "b", "c">>)

\* The delta carries a string for a key (not role) the accumulator lacks,
\* nothing else that is merged, and no tool calls
OnlyNewStrings(c) ==
    /\ \E i \in 1..Len(c.delta) :
          c.delta[i][2].t = "str" /\ c.delta[i][1] \notin DOMAIN c.before.v \cup {"role"}
    /\ \A i \in 1..Len(c.delta) :
          /\ c.delta[i][2].t \in {"str", "null"}
          /\ c.delta[i][2].t = "str" /\ c.delta[i][1] # "role" =>
                 c.delta[i][1] \notin DOMAIN c.before.v

\* C2 as stated: a string field for a key the accumulator lacks is appended
\* to the empty string: the call completes and the accumulator then holds the
\* key with exactly the delta's string.
C2_AbsentKeyAppendsToEmpty ==
    \A c \in Calls :
        OnlyNewStrings(c) =>
            /\ c.err = "none"
            /\ \A i \in 1..Len(c.delta) :
                  c.delta[i][2].t = "str" /\ c.delta[i][1] # "role" =>
                      /\ c.delta[i][1] \in DOMAIN c.after.v
                      /\ c.after.v[c.delta[i][1]] = c.delta[i][2]

C2_Witness ==
    \E c \in Calls : OnlyNewStrings(c) /\ c.err = "KeyError" /\ c.after = c.before

----------------------------------------------------------------------------
(* Tool-call routing: C3, C4, C8 *)

HoldsList(acc, key) == key \in DOMAIN acc.v /\ acc.v[key].t = "list"

\* The delta's tool_calls is a list of at least n fragments
HasFragments(delta, n) ==
    Get(delta, "tool_calls").t = "list" /\ Len(Get(delta, "tool_calls").v) >= n

\* The index the delta's first fragment carries
Addressed(delta) == Get(Get(delta, "tool_calls").v[1].v, "index")

\* The string a fragment carries at a path of one or two keys
AtPath(fragment, path) ==
    IF Len(path) = 1 THEN Carried(fragment.v, path[1])
    ELSE IF Get(fragment.v, path[1]).t = "dict"
         THEN Carried(Get(fragment.v, path[1]).v, path[2])
         ELSE <<>>

\* The delta carries one fragment, addressed to an entry the accumulator was
\* created with, and its top-level fields are merged without an exception
RoutedInRange(delta) ==
    /\ StringsLand(delta, {"role"})
    /\ HasFragments(delta, 1) /\ ~HasFragments(delta, 2)
    /\ HoldsList(initial, "tool_calls")
    /\ Addressed(delta).t = "num"
    /\ Addressed(delta).v \in 0..(Len(initial.v["tool_calls"].v) - 1)

\* The strings the first n deltas carried at a path for entry i, in call order
RECURSIVE Routed(_, _, _)
Routed(i, path, n) ==
    IF n = 0 THEN <<>>
    ELSE Routed(i, path, n - 1) \o
           (IF Addressed(history[n].delta).v = i
            THEN AtPath(Get(history[n].delta, "tool_calls").v[1], path) ELSE <<>>)

\* Entry i as created, each of its strings followed by what was routed to it
ExpectedEntry(i) ==
    LET was == initial.v["tool_calls"].v[i + 1].v
        n == Len(history)
    IN  Dict([id |-> Str(was["id"].v \o Routed(i, <<"id">>, n)),
              type |-> Str(was["type"].v \o Routed(i, <<"type">>, n)),
              function |-> Dict(
                [name |-> Str(was["function"].v["name"].v
                                \o Routed(i, <<"function", "name">>, n)),
                 arguments |-> Str(was["function"].v["arguments"].v
                                \o Routed(i, <<"function", "arguments">>, n))])])

\* C3: after any sequence of calls whose deltas each carry one fragment with
\* an in-range index, every entry tool_calls[i] is the entry as created with
\* each string field followed by the fragments addressed to i, in call order;
\* an entry no fragment was addressed to is as created.
C3_IndexedRouting ==
    (\A c \in Calls : RoutedInRange(c.delta)) /\ HoldsList(initial, "tool_calls") =>
        /\ HoldsList(final_response, "tool_calls")
        /\ Len(final_response.v["tool_calls"].v) = Len(initial.v["tool_calls"].v)
        /\ \A i \in 0..(Len(initial.v["tool_calls"].v) - 1) :
              final_response.v["tool_calls"].v[i + 1] = ExpectedEntry(i)

C3_Witness ==
    /\ Len(history) = 2
    /\ \A c \in Calls : RoutedInRange(c.delta)
    /\ Addressed(history[1].delta).v = 1
    /\ Addressed(history[2].delta).v = 1
    /\ initial.v["tool_calls"].v[2] = PartialEntry
    /\ final_response.v["tool_calls"].v[2].v["function"].v["arguments"]
         = Str(<<"a", "r", "x", "g", "o">>)
    /\ final_response.v["tool_calls"].v[1] = initial.v["tool_calls"].v[1]

\* The delta carries one fragment whose index is at or past the end of the
\* accumulator's tool-call list, and nothing else
RoutedPastEnd(c) ==
    /\ Len(c.delta) = 1
    /\ HasFragments(c.delta, 1) /\ ~HasFragments(c.delta, 2)
    /\ HoldsList(c.before, "tool_calls")
    /\ Addressed(c.delta).t = "num"
    /\ Addressed(c.delta).v >= Len(c.before.v["tool_calls"].v)

\* C4 as stated: a fragment whose index is at or past the end of the
\* accumulator's tool-call list extends the list so that the position exists;
\* the call never ends in an out-of-bounds fault.
C4_OutOfRangeExtends ==
    \A c \in Calls :
        RoutedPastEnd(c) =>
            /\ c.err # "IndexError"
            /\ Len(c.after.v["tool_calls"].v) > Addressed(c.delta).v

\* C5 as stated: a call that ends in an error leaves the accumulator as it
\* was before the call.
C5_FailedCallChangesNothing ==
    \A c \in Calls : c.err # "none" => c.after = c.before

\* The delta without its top-level role field
WithoutRole(delta) == SelectSeq(delta, LAMBDA item : item[1] # "role")

RoleOf(acc) == IF "role" \in DOMAIN acc.v THEN <<acc.v["role"]>> ELSE <<>>

\* C6: after any sequence of calls the accumulator has a role key exactly if
\* it was created with one, holding the value it was created with, and every
\* call left the accumulator, and ended, as the call with the role field
\* removed from the delta does.
C6_RoleDropped ==
    /\ RoleOf(final_response) = RoleOf(initial)
    /\ \A c \in Calls :
          [acc |-> c.after, err |-> c.err] = merge_chunk(c.before, WithoutRole(c.delta))

C6_Witness ==
    \E c \in Calls :
        /\ HasItem(c.delta, "role") /\ Get(c.delta, "role").t = "str"
        /\ Carried(c.delta, "content") # <<>>
        /\ c.err = "none"
        /\ c.after # c.before
        /\ Len(history) = 2
        /\ RoleOf(initial) = <<>>

\* Every field of the delta is None, a number or a boolean
OnlyScalars(delta) ==
    delta # <<>> /\ \A i \in 1..Len(delta) : delta[i][2].t \in {"null", "num", "bool"}

\* C7 as stated: a delta field that is None, a number or a boolean is a
\* no-op: the call completes and the accumulator is as before.
C7_ScalarsIgnored ==
    \A c \in Calls : OnlyScalars(c.delta) => c.err = "none" /\ c.after = c.before

\* The part of C7 the code keeps: a delta of None, number and boolean fields
\* is a no-op unless its tool_calls is a number or boolean that is true, on
\* which len() raises TypeError.
ScalarsIgnoredButTrueToolCalls ==
    \A c \in Calls :
        OnlyScalars(c.delta) /\ ~Truthy(Get(c.delta, "tool_calls")) =>
            c.err = "none" /\ c.after = c.before

\* The delta with its tool_calls cut down to the first entry
RECURSIVE Truncated(_)
Truncated(delta) ==
    IF delta = <<>> THEN <<>>
    ELSE LET key == Head(delta)[1]
             value == Head(delta)[2]
         IN  <<IF key = "tool_calls" /\ value.t = "list" /\ Len(value.v) > 1
               THEN <<key, List(<<value.v[1]>>)>> ELSE Head(delta)>>
               \o Truncated(Tail(delta))

\* C8: a call whose delta carries two or more fragments leaves the
\* accumulator, and ends, as the call with the delta cut down to its first
\* fragment does; the entries the first fragment is not addressed to are
\* unchanged.
C8_OnlyFirstFragment ==
    \A c \in Calls :
        HasFragments(c.delta, 2) =>
            /\ [acc |-> c.after, err |-> c.err] = merge_chunk(c.before, Truncated(c.delta))
            /\ HoldsList(c.before, "tool_calls") =>
                  \A p \in 1..Len(c.before.v["tool_calls"].v) :
                      p # Addressed(c.delta).v + 1 =>
                          c.after.v["tool_calls"].v[p] = c.before.v["tool_calls"].v[p]

C8_Witness ==
    \E c \in Calls :
        /\ HasFragments(c.delta, 2)
        /\ Addressed(c.delta).v = 1
        /\ Get(Get(c.delta, "tool_calls").v[2].v, "index").v = 0
        /\ c.err = "none"
        /\ c.after.v["tool_calls"].v[2] # c.before.v["tool_calls"].v[2]
        /\ c.after.v["tool_calls"].v[1] = c.before.v["tool_calls"].v[1]

----------------------------------------------------------------------------
(* The schema builder: C9, C10 *)

Returned == schema.t = "returned"

\* C9: required lists exactly the parameters declared without a default,
\* whatever their type, in declaration order, and every name in it is a key
\* of properties.
C9_RequiredIsUndefaulted ==
    Returned =>
        LET params == sig.params
            required == schema.parameters.required
        IN  /\ \A i \in 1..Len(params) :
                  (\E j \in 1..Len(required) : required[j] = params[i].name)
                      <=> ~params[i].has_default
            /\ \A j, k \in 1..Len(required) :
                  j < k => \E i, l \in 1..Len(params) :
                              /\ i < l
                              /\ params[i].name = required[j]
                              /\ params[l].name = required[k]
            /\ \A j \in 1..Len(required) :
                  required[j] \in DOMAIN schema.parameters.properties

C9_Witness ==
    /\ Returned
    /\ Len(sig.params) = 2
    /\ sig.params[1] = Param("b", Optional(Class("str")), FALSE)
    /\ sig.params[2].name = "a" /\ ~sig.params[2].has_default
    /\ schema.parameters.required = <<"b", "a">>

\* A Union that is not Optional[X]: no None member, or two or more others
GeneralUnion(annotation) ==
    /\ annotation.k = "Union"
    /\ LET others == {i \in 1..Len(annotation.args) : annotation.args[i] # NoneType}
       IN  Cardinality(others) = Len(annotation.args) \/ Cardinality(others) > 1

\* The members of a Union that parse to an array fragment with an items key
ArrayMembers(annotation) ==
    {i \in 1..Len(annotation.args) :
        LET parsed == parse_type(annotation.args[i])
        IN  parsed["type"] = OneType("array") /\ "items" \in DOMAIN parsed}

\* The fragment of a general Union has the set of the members' type names for
\* its type and, when some member is an array with items, the items of the
\* member pick chooses among those
UnionFragment(pick(_)) ==
    Returned =>
        \A i \in 1..Len(sig.params) :
            LET annotation == sig.params[i].annotation
                fragment == schema.parameters.properties[sig.params[i].name]
            IN  GeneralUnion(annotation) =>
                  /\ fragment["type"] =
                       ManyTypes({n \in {"string", "integer", "number", "boolean",
                                         "array", "object", "null"} :
                                     \E m \in 1..Len(annotation.args) :
                                        parse_type(annotation.args[m])["type"] = OneType(n)})
                  /\ ArrayMembers(annotation) # {} =>
                        /\ "items" \in DOMAIN fragment
                        /\ fragment["items"] =
                             parse_type(annotation.args[pick(ArrayMembers(annotation))])["items"]

Least(S) == CHOOSE i \in S : \A j \in S : i <= j
Greatest(S) == CHOOSE i \in S : \A j \in S : i >= j

====
